---- MODULE Spec2Model ----
(***************************************************************************)
(* Model of the memo application's data layer (src/app.js): the Store      *)
(* object over the two Dexie tables `folders` and `memos`, and the UI      *)
(* handlers that call it.  Every `await` of the source is a step boundary: *)
(* an action is the code between two awaits, applied to the tables at the  *)
(* moment the request is issued.                                           *)
(*                                                                         *)
(* Representation.                                                         *)
(*   - a Dexie table keyed by `id` is a function from the keys present to  *)
(*     the stored records;                                                 *)
(*   - ids are the values of generateId(): fresh, ordered; 0 stands for    *)
(*     the empty string / a missing id (falsy in JavaScript);              *)
(*   - a timestamp is the millisecond value of the ISO string written by   *)
(*     toISOString() (the sort comparators read it back with new Date());  *)
(*   - a JavaScript string is a sequence of characters; `undefined` is the *)
(*     one-element sequence Undefined, which holds no character of the     *)
(*     alphabet.                                                           *)
(***************************************************************************)
EXTENDS Integers, Sequences, FiniteSets, TLC

\* ------------------------------------------------------------------ bounds
MaxIds == 3          \* generateId() is called at most this many times
MaxFolders == 2      \* addFolder is not called on a store holding this many folders
MaxMemos == 2        \* addMemo is not called on a store holding this many memos
MaxClock == 1        \* the clock ticks at most this many times
MaxPayload == 2      \* a backup document lists at most this many records per key
MaxStrLen == 2       \* longest title and query of the search specification

\* ------------------------------------------------------- values and strings
\* <option value=""> of the folder select; also a missing id.
EmptyId == 0

Undefined == <<"undefined">>

Alphabet == {"a", "A", "b"}

\* String.prototype.toLowerCase on one character of the alphabet.
LowerChar(c) == IF c = "A" THEN "a" ELSE c

\* String.prototype.toLowerCase.
ToLowerCase(s) == [i \in 1..Len(s) |-> LowerChar(s[i])]

\* String.prototype.includes: q occurs in s as a contiguous run (the empty
\* string occurs in every string).
Includes(s, q) ==
    \E i \in 0..(Len(s) - Len(q)) :
        \A j \in 1..Len(q) : s[i + j] = q[j]

\* JavaScript truthiness of a string-or-undefined value.
Truthy(s) == s # Undefined /\ s # <<>>

\* ------------------------------------------------------------ Dexie tables
EmptyTable == <<>>

\* Table.put / the effect of a successful Table.add.
TablePut(t, rec) ==
    [k \in (DOMAIN t) \cup {rec.id} |-> IF k = rec.id THEN rec ELSE t[k]]

\* Faulty variant of Table.delete: every key up to the given one is deleted
\* (a range in place of a key).
TableDeleteUpTo(t, key) == [k \in {j \in DOMAIN t : j > key} |-> t[k]]

\* Table.delete(key): no error when the key is absent.
TableDelete(t, key) == [k \in (DOMAIN t) \ {key} |-> t[k]]

\* Faulty variant of Table.clear(): the records stay.
ClearedNothing(t) == t

\* Table.clear().
Cleared(t) == EmptyTable

\* Table.toArray(): the records in primary-key order.
RECURSIVE KeysToArray(_, _)
KeysToArray(t, keys) ==
    IF keys = {} THEN <<>>
    ELSE LET k == CHOOSE x \in keys : \A y \in keys : x <= y
         IN  <<t[k]>> \o KeysToArray(t, keys \ {k})

ToArray(t) == KeysToArray(t, DOMAIN t)

\* Table.bulkAdd(arr) outside a transaction: every record whose key is free
\* is added, a record whose key is taken fails; the call rejects (BulkError)
\* when any record failed, and the records added before and after stay.
RECURSIVE BulkAddFrom(_, _, _)
BulkAddFrom(t, arr, i) ==
    IF i > Len(arr) THEN [table |-> t, failures |-> 0]
    ELSE IF arr[i].id \in DOMAIN t
         THEN LET r == BulkAddFrom(t, arr, i + 1)
              IN  [table |-> r.table, failures |-> r.failures + 1]
         ELSE BulkAddFrom(TablePut(t, arr[i]), arr, i + 1)

\* Faulty variant of bulkAdd: the first record of the array is dropped.
BulkAddDroppingFirst(t, arr) == BulkAddFrom(t, arr, 2)

BulkAdd(t, arr) == BulkAddFrom(t, arr, 1)

\* ------------------------------------------------------ sorting comparator
\* memos.sort((a, b) => new Date(b.updatedAt) - new Date(a.updatedAt)):
\* Array.prototype.sort is stable, so a record goes after every record whose
\* updatedAt is not smaller.
RECURSIVE InsertByUpdatedDesc(_, _)
InsertByUpdatedDesc(sorted, m) ==
    IF sorted = <<>> THEN <<m>>
    ELSE IF Head(sorted).updatedAt >= m.updatedAt
         THEN <<Head(sorted)>> \o InsertByUpdatedDesc(Tail(sorted), m)
         ELSE <<m>> \o sorted

RECURSIVE SortFrom(_, _, _)
SortFrom(arr, i, acc) ==
    IF i > Len(arr) THEN acc
    ELSE SortFrom(arr, i + 1, InsertByUpdatedDesc(acc, arr[i]))

\* Faulty variant of the sort: the array is left in primary-key order.
SortSkipped(arr) == arr

SortByUpdatedDesc(arr) == SortFrom(arr, 1, <<>>)

\* ------------------------------------------------------------------- state
VARIABLES
    folders,    \* db.folders: id -> {id, name, createdAt, updatedAt}
    memos,      \* db.memos: id -> {id, folderId, title, content, createdAt, updatedAt}
    now,        \* the value new Date() reads
    nextId,     \* the next value of generateId()
    op,         \* the Store call in progress and the await it is suspended at
    ret,        \* what the last completed call returned (or threw)
    currentMemoId,   \* let currentMemoId: the memo the editor shows, or none
    folderSelect,    \* elements.folderSelect: its options and its value
    editorOpen,      \* elements.editorModal has the class 'open'
    confirmCallback, \* let confirmCallback, set while the confirm modal is shown
    tasks            \* the UI handlers in flight, each suspended at an await

ui == <<currentMemoId, folderSelect, editorOpen, confirmCallback, tasks>>

vars == <<folders, memos, now, nextId, op, ret,
          currentMemoId, folderSelect, editorOpen, confirmCallback, tasks>>

\* An omitted key of an argument object (numeric fields).
Absent == -1

\* "uncategorized" stands for the reserved folder name of the application.
FolderNames == {"uncategorized", "work"}

NoTask == [pc |-> "", folderId |-> EmptyId, memoId |-> EmptyId, title |-> <<>>,
           options |-> {}]

Handlers == {"openEditor", "saveCurrentMemo", "closeEditor", "deleteFolder",
             "confirmOk"}

\* The page as it is loaded: no memo in the editor, no modal, no handler running.
NoSession ==
    /\ currentMemoId = EmptyId
    /\ folderSelect = [options |-> {}, value |-> EmptyId]
    /\ editorOpen = FALSE
    /\ confirmCallback = EmptyId
    /\ tasks = [h \in Handlers |-> NoTask]

\* The ids a caller passes for a record of table t: the id of a record that is
\* there, or the id of one that is not (one such id stands for all of them).
CallerIds(t) ==
    LET gone == (1..(nextId - 1)) \ DOMAIN t
    IN  (DOMAIN t) \cup (IF gone = {} THEN {}
                         ELSE {CHOOSE i \in gone : \A j \in gone : j <= i})

Idle == [name |-> "idle", pc |-> "", arg |-> <<>>, pre |-> <<>>, caller |-> ""]

\* A call in progress: its argument, the await it is suspended at, who called
\* it, and (for the properties only) the tables as they were when it started.
Call(name, pc, arg) ==
    [name |-> name, pc |-> pc, arg |-> arg,
     pre |-> [folders |-> folders, memos |-> memos], caller |-> "store"]

Returned(name, status, val) == [op |-> name, status |-> status, val |-> val]

\* ------------------------------------------------------- Store: folders
\* The record addFolder builds.
NewFolder(id, name, t) ==
    [id |-> id, name |-> name, createdAt |-> t, updatedAt |-> t]

\* Faulty variant of the rename: a missing key is created (put in place of
\* update).
FolderRenamedOrCreated(fs, id, name, t) ==
    [k \in (DOMAIN fs) \cup {id} |->
        IF k = id
        THEN [id |-> id, name |-> name, updatedAt |-> t,
              createdAt |-> IF id \in DOMAIN fs THEN fs[id].createdAt ELSE t]
        ELSE fs[k]]

\* db.folders.update(id, {name, updatedAt}): nothing happens for a missing key.
FolderRenamed(fs, id, name, t) ==
    IF id \in DOMAIN fs
    THEN [fs EXCEPT ![id] = [@ EXCEPT !.name = name, !.updatedAt = t]]
    ELSE fs

\* Faulty variant of the touch: the folder record is left as it is.
FolderUntouched(fs, id, t) == fs

\* Faulty variant of the touch: every folder's updatedAt is written.
FolderTouchedAll(fs, id, t) == [k \in DOMAIN fs |-> [fs[k] EXCEPT !.updatedAt = t]]

\* db.folders.update(folderId, {updatedAt}).
FolderTouched(fs, id, t) ==
    IF id \in DOMAIN fs
    THEN [fs EXCEPT ![id] = [@ EXCEPT !.updatedAt = t]]
    ELSE fs

\* Faulty variant of the cascade: no memo is deleted.
MemosAllKept(ms, folderId) == ms

\* db.memos.where('folderId').equals(folderId).delete().
MemosWithoutFolder(ms, folderId) ==
    [k \in {i \in DOMAIN ms : ms[i].folderId # folderId} |-> ms[k]]

\* db.memos.where('folderId').equals(folderId).toArray() followed by the sort.
MemosByFolder(ms, folderId) ==
    SortByUpdatedDesc(
        SelectSeq(ToArray(ms), LAMBDA m : m.folderId = folderId))

Tick ==
    /\ now < MaxClock
    /\ now' = now + 1
    /\ UNCHANGED <<folders, memos, nextId, op, ret>>
    /\ UNCHANGED ui

\* Store.addFolder(name)
AddFolder ==
    /\ op = Idle
    /\ nextId <= MaxIds
    /\ Cardinality(DOMAIN folders) < MaxFolders
    /\ \E name \in FolderNames :
        LET folder == NewFolder(nextId, name, now)
        IN  /\ folders' = TablePut(folders, folder)
            /\ ret' = Returned("addFolder", "ok", folder.id)
    /\ nextId' = nextId + 1
    /\ UNCHANGED <<memos, now, op>>
    /\ UNCHANGED ui

\* Store.updateFolder(id, name)
UpdateFolder ==
    /\ op = Idle
    /\ \E id \in CallerIds(folders), name \in FolderNames :
        /\ folders' = FolderRenamed(folders, id, name, now)
        /\ ret' = Returned("updateFolder", "ok", id)
    /\ UNCHANGED <<memos, now, nextId, op>>
    /\ UNCHANGED ui

\* Store.deleteFolder(folderId), up to its first await: db.folders.delete.
DeleteFolderRecord ==
    /\ op = Idle
    /\ \E id \in CallerIds(folders) :
        /\ folders' = TableDelete(folders, id)
        /\ op' = Call("deleteFolder", "memos", id)
    /\ UNCHANGED <<memos, now, nextId, ret>>
    /\ UNCHANGED ui

\* Store.deleteFolder(folderId), after its first await: the memos of the folder.
DeleteFolderMemos ==
    /\ op.name = "deleteFolder" /\ op.pc = "memos"
    /\ memos' = MemosWithoutFolder(memos, op.arg)
    /\ op' = Idle
    /\ ret' = Returned("deleteFolder", "ok",
                       [id |-> op.arg,
                        removed |-> Cardinality(DOMAIN memos)
                                    - Cardinality(DOMAIN memos')])
    /\ UNCHANGED <<folders, now, nextId>>
    /\ UNCHANGED ui

\* Store.getMemosByFolder(folderId)
GetMemosByFolder ==
    /\ op = Idle
    /\ \E id \in CallerIds(folders) :
        ret' = Returned("getMemosByFolder", "ok",
                        [folderId |-> id, memos |-> MemosByFolder(memos, id)])
    /\ UNCHANGED <<folders, memos, now, nextId, op>>
    /\ UNCHANGED ui

\* -------------------------------------------------------- Store: memos
\* What callers put in the argument of addMemo and updateMemo.
ArgTitles == {<<"a">>}
ArgContents == {<<>>}

\* The record addMemo builds: { id, ...memo, createdAt: now, updatedAt: now }.
NewMemo(id, memo, t) ==
    [id |-> id, folderId |-> memo.folderId, title |-> memo.title,
     content |-> memo.content, createdAt |-> t, updatedAt |-> t]

\* { ...updates, updatedAt: now } applied by db.memos.update to one record:
\* the keys present in updates replace the record's, updatedAt is the store's.
MemoChanged(m, updates, t) ==
    [id |-> m.id,
     folderId |-> IF updates.folderId # Absent THEN updates.folderId ELSE m.folderId,
     title |-> IF updates.title # Undefined THEN updates.title ELSE m.title,
     content |-> IF updates.content # Undefined THEN updates.content ELSE m.content,
     createdAt |-> IF updates.createdAt # Absent THEN updates.createdAt ELSE m.createdAt,
     updatedAt |-> t]

\* db.memos.update(id, updateData): nothing happens for a missing key.
MemoUpdated(ms, id, updates, t) ==
    IF id \in DOMAIN ms
    THEN [ms EXCEPT ![id] = MemoChanged(@, updates, t)]
    ELSE ms

\* if (updates.folderId): an omitted key and the empty string are both falsy.
HasFolderId(updates) ==
    updates.folderId # Absent /\ updates.folderId # EmptyId

\* db.memos.get(id): the record, or undefined.
MemoGet(ms, id) == IF id \in DOMAIN ms THEN ms[id] ELSE Undefined

\* Store.addMemo(memo), up to its first await: db.memos.add(newMemo).
AddMemoRecord ==
    /\ op = Idle
    /\ nextId <= MaxIds
    /\ Cardinality(DOMAIN memos) < MaxMemos
    /\ \E folderId \in DOMAIN folders, title \in ArgTitles, content \in ArgContents,
          stamp \in {Absent, 0} :
        LET memo == [folderId |-> folderId, title |-> title, content |-> content,
                     createdAt |-> stamp, updatedAt |-> stamp]
            newMemo == NewMemo(nextId, memo, now)
        IN  /\ memos' = TablePut(memos, newMemo)
            /\ op' = Call("addMemo", "touch", [id |-> nextId, folderId |-> folderId])
    /\ nextId' = nextId + 1
    /\ UNCHANGED <<folders, now, ret>>
    /\ UNCHANGED ui

\* Store.addMemo, after its first await: updateFolderTimestamp(memo.folderId),
\* then the return of newMemo.
AddMemoTouch ==
    /\ op.name = "addMemo" /\ op.pc = "touch"
    /\ folders' = FolderTouched(folders, op.arg.folderId, now)
    /\ op' = Idle
    /\ ret' = Returned("addMemo", "ok", op.arg.id)
    /\ UNCHANGED <<memos, now, nextId>>
    /\ UNCHANGED ui

\* Store.updateMemo(id, updates), up to its first await: db.memos.update.
UpdateMemoRecord ==
    /\ op = Idle
    /\ \E id \in CallerIds(memos), folderId \in {Absent} \cup DOMAIN folders,
          title \in {Undefined} \cup ArgTitles, stamp \in {Absent, 0} :
        LET updates == [id |-> id, folderId |-> folderId, title |-> title,
                        content |-> Undefined, createdAt |-> stamp]
        IN  /\ memos' = MemoUpdated(memos, id, updates, now)
            /\ op' = Call("updateMemo", "touch", [id |-> id, folderId |-> folderId])
    /\ UNCHANGED <<folders, now, nextId, ret>>
    /\ UNCHANGED ui

\* Store.updateMemo, after db.memos.update: the touch of updates.folderId,
\* when the updates carry one.
UpdateMemoTouch ==
    /\ op.name = "updateMemo" /\ op.pc = "touch"
    /\ HasFolderId(op.arg)
    /\ folders' = FolderTouched(folders, op.arg.folderId, now)
    /\ op' = [op EXCEPT !.pc = "get"]
    /\ UNCHANGED <<memos, now, nextId, ret>>
    /\ UNCHANGED ui

\* Store.updateMemo, its last call: return await db.memos.get(id).
UpdateMemoGet ==
    /\ op.name = "updateMemo"
    /\ op.pc = "get" \/ (op.pc = "touch" /\ ~HasFolderId(op.arg))
    /\ op' = Idle
    /\ ret' = Returned("updateMemo",
                       IF op.arg.id \in DOMAIN memos THEN "ok" ELSE "undefined",
                       op.arg.id)
    /\ UNCHANGED <<folders, memos, now, nextId>>
    /\ UNCHANGED ui

\* Store.deleteMemo(id)
DeleteMemo ==
    /\ op = Idle
    /\ \E id \in CallerIds(memos) :
        /\ memos' = TableDelete(memos, id)
        /\ ret' = Returned("deleteMemo", "ok", id)
    /\ UNCHANGED <<folders, now, nextId, op>>
    /\ UNCHANGED ui

\* ------------------------------------------------------- Store: search
\* m.title.toLowerCase().includes(q): a TypeError when the field is
\* undefined, else whether the lower-cased field holds q.
LowerIncludes(v, q) ==
    [threw |-> v = Undefined,
     val |-> v # Undefined /\ Includes(ToLowerCase(v), q)]

\* Faulty variant of the field test: the field is not guarded by &&.
FieldMatchesUnguarded(v, q) == LowerIncludes(v, q)

\* (m.title && m.title.toLowerCase().includes(q)): && does not evaluate its
\* right operand for undefined or the empty string.
FieldMatches(v, q) ==
    IF Truthy(v) THEN LowerIncludes(v, q) ELSE [threw |-> FALSE, val |-> FALSE]

\* The filter predicate: title test || content test.
MemoMatches(m, q) ==
    LET t == FieldMatches(m.title, q)
    IN  IF t.threw \/ t.val THEN t ELSE FieldMatches(m.content, q)

\* Store.searchMemos(query): the outcome and the returned array.
SearchResult(ms, query) ==
    LET q == ToLowerCase(query)
        arr == ToArray(ms)
    IN  IF \E i \in 1..Len(arr) : MemoMatches(arr[i], q).threw
        THEN [status |-> "error", memos |-> <<>>]
        ELSE [status |-> "ok",
              memos |-> SortByUpdatedDesc(
                            SelectSeq(arr, LAMBDA m : MemoMatches(m, q).val))]

\* The strings of at most MaxStrLen characters.
SearchStrings == UNION {[1..n -> Alphabet] : n \in 0..MaxStrLen}

\* Store.searchMemos(query)
SearchMemos ==
    /\ op = Idle
    /\ \E query \in SearchStrings :
        LET r == SearchResult(memos, query)
        IN  ret' = Returned("searchMemos", r.status,
                            [query |-> query, memos |-> r.memos])
    /\ UNCHANGED <<folders, memos, now, nextId, op>>
    /\ UNCHANGED ui

\* ------------------------------------------------- Store: backup / restore
\* The parsed JSON of a backup file.  kind is "object" for a JSON object,
\* "null" for the JSON text null, "malformed" for text JSON.parse rejects;
\* hasFolders / hasMemos say whether the key holds a non-null value.
Document(kind, hasFolders, fs, hasMemos, ms) ==
    [kind |-> kind, hasFolders |-> hasFolders, folders |-> fs,
     hasMemos |-> hasMemos, memos |-> ms]

PayloadFolder(i) ==
    [id |-> i, name |-> "work", createdAt |-> 0, updatedAt |-> 0]

PayloadMemo(i) ==
    [id |-> i, folderId |-> i, title |-> <<"a">>, content |-> <<>>,
     createdAt |-> 0, updatedAt |-> 0]

\* The ids a backup file can name: ids generated before it was written.
PayloadIds == {i \in 1..(nextId - 1) : i <= MaxPayload}

\* Lists of at most MaxPayload ids (a repeated id is a duplicate record).
PayloadLists ==
    {l \in UNION {[1..n -> PayloadIds] : n \in 0..MaxPayload} :
        \A i \in 1..(Len(l) - 1) : l[i] <= l[i + 1]}

Payloads ==
    {Document("object", TRUE, [i \in 1..Len(fl) |-> PayloadFolder(fl[i])],
              TRUE, [i \in 1..Len(ml) |-> PayloadMemo(ml[i])]) :
        fl \in PayloadLists, ml \in PayloadLists}

\* Documents restoreFromBackup does not accept.
BadDocuments ==
    {Document("malformed", FALSE, <<>>, FALSE, <<>>),
     Document("null", FALSE, <<>>, FALSE, <<>>),
     Document("object", FALSE, <<>>, FALSE, <<>>),
     Document("object", FALSE, <<>>, TRUE, <<PayloadMemo(1)>>),
     Document("object", TRUE, <<PayloadFolder(1)>>, FALSE, <<>>)}

\* Store.exportAllData, up to its first await: getFolders().
ExportFolders ==
    /\ op = Idle
    /\ op' = Call("exportAllData", "memos", ToArray(folders))
    /\ UNCHANGED <<folders, memos, now, nextId, ret>>
    /\ UNCHANGED ui

\* Store.exportAllData, after getFolders: getMemos() and the returned object.
ExportMemos ==
    /\ op.name = "exportAllData" /\ op.pc = "memos"
    /\ op' = Idle
    /\ ret' = Returned("exportAllData", "ok",
                       [folders |-> op.arg, memos |-> ToArray(memos),
                        exportedAt |-> now])
    /\ UNCHANGED <<folders, memos, now, nextId>>
    /\ UNCHANGED ui

\* What an importData call reports when it ends, beside its status.
ImportSummary(o) ==
    [roundTrip |-> o.arg.roundTrip,
     noFolders |-> o.arg.folders = <<>>,
     noMemos |-> o.arg.memos = <<>>,
     priorFolders |-> Cardinality(DOMAIN o.pre.folders),
     priorMemos |-> Cardinality(DOMAIN o.pre.memos)]

\* The end of importData: the promise settles, and restoreFromBackup (when it
\* is the caller) closes the modal and alerts, or alerts from its catch block.
ImportEnds(status) ==
    /\ op' = Idle
    /\ ret' = Returned(IF op.caller = "restore" THEN "restoreFromBackup"
                       ELSE "importData",
                       status, ImportSummary(op))

\* Store.importData(exportAllData()), up to its first await:
\* db.folders.clear().  The application itself calls importData only from
\* restoreFromBackup; this is the call on the object exportAllData has just
\* returned, with no other call in between.
ImportClearFolders ==
    /\ op = Idle
    /\ ret.op = "exportAllData"
    /\ op' = Call("importData", "clearMemos",
                  [folders |-> ret.val.folders, memos |-> ret.val.memos,
                   hasFolders |-> TRUE, hasMemos |-> TRUE, roundTrip |-> TRUE])
    /\ folders' = Cleared(folders)
    /\ UNCHANGED <<memos, now, nextId, ret>>
    /\ UNCHANGED ui

\* importData, after the first await: db.memos.clear().
ImportClearMemos ==
    /\ op.name = "importData" /\ op.pc = "clearMemos"
    /\ memos' = Cleared(memos)
    /\ op' = [op EXCEPT !.pc = "addFolders"]
    /\ UNCHANGED <<folders, now, nextId, ret>>
    /\ UNCHANGED ui

\* if (data.folders && data.folders.length > 0)
HasRecords(present, arr) == present /\ Len(arr) > 0

\* importData, the bulkAdd of the memos (when there are any) and the return;
\* a rejected bulkAdd rejects importData.
ImportMemosAndEnd ==
    IF HasRecords(op.arg.hasMemos, op.arg.memos)
    THEN LET r == BulkAdd(memos, op.arg.memos)
         IN  /\ memos' = r.table
             /\ ImportEnds(IF r.failures = 0 THEN "ok" ELSE "error")
    ELSE /\ memos' = memos
         /\ ImportEnds("ok")

\* importData, after db.memos.clear(): the bulkAdd of the folders; with no
\* folders to add the code goes straight on to the memos.
ImportAddFolders ==
    /\ op.name = "importData" /\ op.pc = "addFolders"
    /\ IF HasRecords(op.arg.hasFolders, op.arg.folders)
       THEN LET r == BulkAdd(folders, op.arg.folders)
            IN  /\ folders' = r.table
                /\ memos' = memos
                /\ IF r.failures > 0
                   THEN ImportEnds("error")
                   ELSE /\ op' = [op EXCEPT !.pc = "addMemos"]
                        /\ ret' = ret
       ELSE /\ folders' = folders
            /\ ImportMemosAndEnd
    /\ UNCHANGED <<now, nextId>>
    /\ UNCHANGED ui

\* importData, after the bulkAdd of the folders.
ImportAddMemos ==
    /\ op.name = "importData" /\ op.pc = "addMemos"
    /\ ImportMemosAndEnd
    /\ UNCHANGED <<folders, now, nextId>>
    /\ UNCHANGED ui

\* Store.clearAllData, up to its first await: db.folders.clear().
ClearFolders ==
    /\ op = Idle
    /\ folders' = Cleared(folders)
    /\ op' = Call("clearAllData", "memos", <<>>)
    /\ UNCHANGED <<memos, now, nextId, ret>>
    /\ UNCHANGED ui

\* Store.clearAllData, after its first await: db.memos.clear().
ClearMemos ==
    /\ op.name = "clearAllData" /\ op.pc = "memos"
    /\ memos' = Cleared(memos)
    /\ op' = Idle
    /\ ret' = Returned("clearAllData", "ok", <<>>)
    /\ UNCHANGED <<folders, now, nextId>>
    /\ UNCHANGED ui

\* restoreFromBackup(file), up to its first await: file.text().
RestoreRead ==
    /\ op = Idle
    /\ \E doc \in Payloads \cup BadDocuments :
        op' = [Call("restoreFromBackup", "parse", doc) EXCEPT !.caller = "restore"]
    /\ UNCHANGED <<folders, memos, now, nextId, ret>>
    /\ UNCHANGED ui

\* Faulty variant of the validity test: a document is refused only when it
\* lacks both keys.
LacksBothKeys(doc) == ~doc.hasFolders /\ ~doc.hasMemos

\* if (!data.folders || !data.memos)
IsInvalidBackup(doc) == ~doc.hasFolders \/ ~doc.hasMemos

\* restoreFromBackup, after file.text(): JSON.parse, the validity test, the
\* confirm() dialog and, when the user accepts, the call of importData up to
\* its first await.
RestoreParse ==
    /\ op.name = "restoreFromBackup" /\ op.pc = "parse"
    /\ \/ /\ op.arg.kind # "object"
          /\ op' = Idle
          /\ ret' = Returned("restoreFromBackup", "error", <<>>)
          /\ UNCHANGED folders
       \/ /\ op.arg.kind = "object"
          /\ IsInvalidBackup(op.arg)
          /\ op' = Idle
          /\ ret' = Returned("restoreFromBackup", "invalid", <<>>)
          /\ UNCHANGED folders
       \/ /\ op.arg.kind = "object"
          /\ ~IsInvalidBackup(op.arg)
          /\ \E confirmed \in BOOLEAN :
              IF confirmed
              THEN /\ folders' = Cleared(folders)
                   /\ op' = [op EXCEPT !.name = "importData", !.pc = "clearMemos",
                                       !.arg = [folders |-> op.arg.folders,
                                                memos |-> op.arg.memos,
                                                hasFolders |-> TRUE,
                                                hasMemos |-> TRUE,
                                                roundTrip |-> FALSE]]
                   /\ ret' = ret
              ELSE /\ op' = Idle
                   /\ ret' = Returned("restoreFromBackup", "declined", <<>>)
                   /\ UNCHANGED folders
    /\ UNCHANGED <<memos, now, nextId>>
    /\ UNCHANGED ui

\* ------------------------------------------------------------- UI handlers
\* A handler in flight is a task: the await it is suspended at and its local
\* variables.  One instance of each handler is in flight at a time.  A button
\* can be clicked when the modal holding it is shown and no modal lies over
\* it: the confirm modal lies over the editor, the editor over the main
\* screen (classList.add('open') / remove('open') in the source).
MainScreen == ~editorOpen /\ confirmCallback = EmptyId

InEditor == editorOpen /\ confirmCallback = EmptyId

Started(h, t) == [tasks EXCEPT ![h] = t]

Ended(h) == [tasks EXCEPT ![h] = NoTask]

\* What the user has typed in elements.memoTitle when a save starts (the
\* content is left empty): nothing, or a title.
TypedTitles == {<<>>, <<"a">>}

\* elements.folderSelect.value = v: a select takes a value only when one of
\* its options has it, and falls back to no selection.
SelectValue(options, v) == IF v \in options THEN v ELSE EmptyId

\* folders.find(f => f.name === <the reserved name>): the id of the first such
\* folder of the array, or none.
FindUncategorized(fs) ==
    LET hits == {k \in DOMAIN fs : fs[k].name = "uncategorized"}
    IN  IF hits = {} THEN EmptyId
        ELSE CHOOSE k \in hits : \A j \in hits : k <= j

\* openEditor() and openEditorForFolder(folderId), up to the await of
\* updateFolderSelect: currentMemoId = null, and getFolders() is issued.
OpenEditorClick ==
    /\ MainScreen
    /\ tasks["openEditor"] = NoTask
    /\ \E selectedId \in {EmptyId} \cup DOMAIN folders :
        tasks' = Started("openEditor",
                         [NoTask EXCEPT !.pc = "select", !.folderId = selectedId,
                                        !.options = DOMAIN folders])
    /\ currentMemoId' = EmptyId
    /\ UNCHANGED <<folders, memos, now, nextId, op, ret>>
    /\ UNCHANGED <<folderSelect, editorOpen, confirmCallback>>

\* openEditor, after getFolders: the options are rebuilt from the folders
\* read, and the modal opens.
OpenEditorShow ==
    /\ tasks["openEditor"].pc = "select"
    /\ folderSelect' = [options |-> tasks["openEditor"].options,
                        value |-> SelectValue(tasks["openEditor"].options,
                                              tasks["openEditor"].folderId)]
    /\ editorOpen' = TRUE
    /\ tasks' = Ended("openEditor")
    /\ UNCHANGED <<folders, memos, now, nextId, op, ret>>
    /\ UNCHANGED <<currentMemoId, confirmCallback>>

\* The user picks an option of the folder select.
SelectFolder ==
    /\ InEditor
    /\ \E v \in folderSelect.options \cup {EmptyId} :
        /\ v # folderSelect.value
        /\ folderSelect' = [folderSelect EXCEPT !.value = v]
    /\ UNCHANGED <<folders, memos, now, nextId, op, ret>>
    /\ UNCHANGED <<currentMemoId, editorOpen, confirmCallback, tasks>>

\* if (currentMemoId) Store.updateMemo(currentMemoId, {folderId, title, content})
\* else Store.addMemo({folderId, title, content}), each up to its first
\* await; currentMemoId is read when the call is made.
WriteMemo(h, folderId, title) ==
    IF currentMemoId # EmptyId
    THEN /\ memos' = MemoUpdated(memos, currentMemoId,
                                 [folderId |-> folderId, title |-> title,
                                  content |-> <<>>, createdAt |-> Absent], now)
         /\ nextId' = nextId
         /\ tasks' = Started(h, [NoTask EXCEPT !.pc = "touchUpdate",
                                               !.folderId = folderId,
                                               !.memoId = currentMemoId])
    ELSE /\ nextId <= MaxIds
         /\ memos' = TablePut(memos,
                              NewMemo(nextId,
                                      [folderId |-> folderId, title |-> title,
                                       content |-> <<>>], now))
         /\ nextId' = nextId + 1
         /\ tasks' = Started(h, [NoTask EXCEPT !.pc = "touchAdd",
                                               !.folderId = folderId,
                                               !.memoId = nextId])

\* saveCurrentMemo() and closeEditor(), up to the first await.  With nothing
\* typed nothing is written (closeEditor closes the modal); with no folder
\* selected getOrCreateUncategorizedFolder is called and getFolders() issued;
\* else the memo is written.
SaveClick(h) ==
    /\ InEditor
    /\ tasks[h] = NoTask
    /\ \E title \in TypedTitles :
        IF title = <<>>
        THEN /\ editorOpen' = (h # "closeEditor")
             /\ UNCHANGED <<folders, memos, nextId, tasks>>
        ELSE IF folderSelect.value = EmptyId
        THEN /\ tasks' = Started(h, [NoTask EXCEPT
                                        !.pc = "uncategorized",
                                        !.folderId = FindUncategorized(folders),
                                        !.title = title])
             /\ UNCHANGED <<folders, memos, nextId, editorOpen>>
        ELSE /\ WriteMemo(h, folderSelect.value, title)
             /\ UNCHANGED <<folders, editorOpen>>
    /\ UNCHANGED <<now, op, ret, currentMemoId, folderSelect, confirmCallback>>

\* saveCurrentMemo sets elements.folderSelect.value = targetFolderId;
\* closeEditor does not.
SelectAfterResolve(h, target) ==
    IF h = "saveCurrentMemo"
    THEN [folderSelect EXCEPT !.value = SelectValue(folderSelect.options, target)]
    ELSE folderSelect

\* getOrCreateUncategorizedFolder, after getFolders: the folder found is
\* returned and the memo written; with none found Store.addFolder is called.
SaveUncategorized(h) ==
    /\ tasks[h].pc = "uncategorized"
    /\ IF tasks[h].folderId # EmptyId
       THEN /\ WriteMemo(h, tasks[h].folderId, tasks[h].title)
            /\ folderSelect' = SelectAfterResolve(h, tasks[h].folderId)
            /\ folders' = folders
       ELSE /\ nextId <= MaxIds
            /\ folders' = TablePut(folders, NewFolder(nextId, "uncategorized", now))
            /\ nextId' = nextId + 1
            /\ tasks' = Started(h, [tasks[h] EXCEPT !.pc = "folderAdded",
                                                    !.folderId = nextId])
            /\ UNCHANGED <<memos, folderSelect>>
    /\ UNCHANGED <<now, op, ret, currentMemoId, editorOpen, confirmCallback>>

\* After Store.addFolder has added the reserved folder: the memo is written
\* with its id.
SaveFolderAdded(h) ==
    /\ tasks[h].pc = "folderAdded"
    /\ WriteMemo(h, tasks[h].folderId, tasks[h].title)
    /\ folderSelect' = SelectAfterResolve(h, tasks[h].folderId)
    /\ UNCHANGED <<folders, now, op, ret, currentMemoId, editorOpen, confirmCallback>>

\* Store.addMemo / Store.updateMemo called by the handler, after the write:
\* updateFolderTimestamp(folderId).
SaveTouch(h) ==
    /\ tasks[h].pc \in {"touchAdd", "touchUpdate"}
    /\ folders' = FolderTouched(folders, tasks[h].folderId, now)
    /\ tasks' = Started(h, [tasks[h] EXCEPT
                               !.pc = IF tasks[h].pc = "touchAdd"
                                      THEN "returnAdd" ELSE "get"])
    /\ UNCHANGED <<memos, now, nextId, op, ret>>
    /\ UNCHANGED <<currentMemoId, folderSelect, editorOpen, confirmCallback>>

\* Store.updateMemo called by the handler: return await db.memos.get(id).
SaveGet(h) ==
    /\ tasks[h].pc = "get"
    /\ tasks' = Started(h, [tasks[h] EXCEPT !.pc = "returnUpdate"])
    /\ UNCHANGED <<folders, memos, now, nextId, op, ret>>
    /\ UNCHANGED <<currentMemoId, folderSelect, editorOpen, confirmCallback>>

\* The handler after the Store call: saveCurrentMemo keeps the id of a memo it
\* created in currentMemoId; closeEditor closes the modal (the renders in
\* between only read).
SaveReturn(h) ==
    /\ tasks[h].pc \in {"returnAdd", "returnUpdate"}
    /\ currentMemoId' = IF h = "saveCurrentMemo" /\ tasks[h].pc = "returnAdd"
                        THEN tasks[h].memoId ELSE currentMemoId
    /\ editorOpen' = IF h = "closeEditor" THEN FALSE ELSE editorOpen
    /\ tasks' = Ended(h)
    /\ UNCHANGED <<folders, memos, now, nextId, op, ret>>
    /\ UNCHANGED <<folderSelect, confirmCallback>>

SaveCurrentMemoClick == SaveClick("saveCurrentMemo")
SaveCurrentMemoUncategorized == SaveUncategorized("saveCurrentMemo")
SaveCurrentMemoFolderAdded == SaveFolderAdded("saveCurrentMemo")
SaveCurrentMemoTouch == SaveTouch("saveCurrentMemo")
SaveCurrentMemoGet == SaveGet("saveCurrentMemo")
SaveCurrentMemoReturn == SaveReturn("saveCurrentMemo")

CloseEditorClick == SaveClick("closeEditor")
CloseEditorUncategorized == SaveUncategorized("closeEditor")
CloseEditorFolderAdded == SaveFolderAdded("closeEditor")
CloseEditorTouch == SaveTouch("closeEditor")
CloseEditorGet == SaveGet("closeEditor")
CloseEditorReturn == SaveReturn("closeEditor")

\* deleteFolder(folderId) of the UI, up to its first await: getFolders().
DeleteFolderClick ==
    /\ MainScreen
    /\ tasks["deleteFolder"] = NoTask
    /\ \E id \in DOMAIN folders :
        tasks' = Started("deleteFolder",
                         [NoTask EXCEPT !.pc = "getMemos", !.folderId = id])
    /\ UNCHANGED <<folders, memos, now, nextId, op, ret>>
    /\ UNCHANGED <<currentMemoId, folderSelect, editorOpen, confirmCallback>>

\* deleteFolder of the UI, after getFolders: getMemosByFolder(folderId).
DeleteFolderGetMemos ==
    /\ tasks["deleteFolder"].pc = "getMemos"
    /\ tasks' = Started("deleteFolder",
                        [tasks["deleteFolder"] EXCEPT !.pc = "confirm"])
    /\ UNCHANGED <<folders, memos, now, nextId, op, ret>>
    /\ UNCHANGED <<currentMemoId, folderSelect, editorOpen, confirmCallback>>

\* deleteFolder of the UI, after getMemosByFolder: showConfirm(..., callback).
DeleteFolderShowConfirm ==
    /\ tasks["deleteFolder"].pc = "confirm"
    /\ confirmCallback' = tasks["deleteFolder"].folderId
    /\ tasks' = Ended("deleteFolder")
    /\ UNCHANGED <<folders, memos, now, nextId, op, ret>>
    /\ UNCHANGED <<currentMemoId, folderSelect, editorOpen>>

\* The click on confirmOk: the callback runs Store.deleteFolder(folderId) up
\* to its first await (db.folders.delete), and the modal closes.
ConfirmOk ==
    /\ confirmCallback # EmptyId
    /\ tasks["confirmOk"] = NoTask
    /\ folders' = TableDelete(folders, confirmCallback)
    /\ tasks' = Started("confirmOk",
                        [NoTask EXCEPT !.pc = "memos", !.folderId = confirmCallback])
    /\ confirmCallback' = EmptyId
    /\ UNCHANGED <<memos, now, nextId, op, ret>>
    /\ UNCHANGED <<currentMemoId, folderSelect, editorOpen>>

\* The click on confirmCancel.
ConfirmCancel ==
    /\ confirmCallback # EmptyId
    /\ confirmCallback' = EmptyId
    /\ UNCHANGED <<folders, memos, now, nextId, op, ret>>
    /\ UNCHANGED <<currentMemoId, folderSelect, editorOpen, tasks>>

\* The callback, after db.folders.delete: the memos of the folder are deleted
\* (then openFolders is updated and the list rendered).
ConfirmedDeleteMemos ==
    /\ tasks["confirmOk"].pc = "memos"
    /\ memos' = MemosWithoutFolder(memos, tasks["confirmOk"].folderId)
    /\ tasks' = Ended("confirmOk")
    /\ UNCHANGED <<folders, now, nextId, op, ret>>
    /\ UNCHANGED <<currentMemoId, folderSelect, editorOpen, confirmCallback>>

\* ------------------------------------------------------------ specification
Init ==
    /\ folders = EmptyTable
    /\ memos = EmptyTable
    /\ now = 0
    /\ nextId = 1
    /\ op = Idle
    /\ ret = Returned("init", "ok", <<>>)
    /\ NoSession

\* The Store calls on folders and memos, one call at a time.
Next ==
    \/ Tick
    \/ AddFolder
    \/ UpdateFolder
    \/ DeleteFolderRecord
    \/ DeleteFolderMemos
    \/ GetMemosByFolder
    \/ AddMemoRecord
    \/ AddMemoTouch
    \/ UpdateMemoRecord
    \/ UpdateMemoTouch
    \/ UpdateMemoGet
    \/ DeleteMemo

Spec == Init /\ [][Next]_vars

\* Backup and restore over a store filled by addFolder and addMemo.
NextBackup ==
    \/ Tick
    \/ AddFolder
    \/ AddMemoRecord
    \/ AddMemoTouch
    \/ ExportFolders
    \/ ExportMemos
    \/ ImportClearFolders
    \/ ImportClearMemos
    \/ ImportAddFolders
    \/ ImportAddMemos
    \/ ClearFolders
    \/ ClearMemos
    \/ RestoreRead
    \/ RestoreParse

SpecBackup == Init /\ [][NextBackup]_vars

\* Search over every store of two memos whose title and content are drawn
\* from the strings below (undefined and the empty string included).
SearchTitles == SearchStrings \cup {Undefined}

SearchContents == {Undefined, <<>>, <<"a">>}

\* The stores searched: two memos of one folder, the first with any title
\* and content, the second with no title or an empty one.
InitSearch ==
    /\ folders = TablePut(EmptyTable, NewFolder(1, "work", 0))
    /\ \E t2 \in SearchTitles, t3 \in {Undefined, <<>>}, c2, c3 \in SearchContents :
        memos = TablePut(
                    TablePut(EmptyTable,
                             [id |-> 2, folderId |-> 1, title |-> t2,
                              content |-> c2, createdAt |-> 0, updatedAt |-> 0]),
                    [id |-> 3, folderId |-> 1, title |-> t3,
                     content |-> c3, createdAt |-> 0, updatedAt |-> 0])
    /\ now = 0
    /\ nextId = 4
    /\ op = Idle
    /\ ret = Returned("init", "ok", <<>>)
    /\ NoSession

NextSearch == SearchMemos

SpecSearch == InitSearch /\ [][NextSearch]_vars

\* The UI handlers of one session, over a store left by earlier sessions that
\* holds one folder and no memo.
InitUI ==
    /\ folders = TablePut(EmptyTable, NewFolder(1, "work", 0))
    /\ memos = EmptyTable
    /\ now = 0
    /\ nextId = 2
    /\ op = Idle
    /\ ret = Returned("init", "ok", <<>>)
    /\ NoSession

NextUI ==
    \/ OpenEditorClick
    \/ OpenEditorShow
    \/ SelectFolder
    \/ SaveCurrentMemoClick
    \/ SaveCurrentMemoUncategorized
    \/ SaveCurrentMemoFolderAdded
    \/ SaveCurrentMemoTouch
    \/ SaveCurrentMemoGet
    \/ SaveCurrentMemoReturn
    \/ CloseEditorClick
    \/ CloseEditorUncategorized
    \/ CloseEditorFolderAdded
    \/ CloseEditorTouch
    \/ CloseEditorGet
    \/ CloseEditorReturn
    \/ DeleteFolderClick
    \/ DeleteFolderGetMemos
    \/ DeleteFolderShowConfirm
    \/ ConfirmOk
    \/ ConfirmCancel
    \/ ConfirmedDeleteMemos

SpecUI == InitUI /\ [][NextUI]_vars

\* One editor session on a new memo: the state when openEditor() has returned
\* over that store (currentMemoId is null, the select lists the store's
\* folder, the editor modal is open), and the handlers the open editor offers.
InitEditor ==
    /\ folders = TablePut(EmptyTable, NewFolder(1, "work", 0))
    /\ memos = EmptyTable
    /\ now = 0
    /\ nextId = 2
    /\ op = Idle
    /\ ret = Returned("init", "ok", <<>>)
    /\ currentMemoId = EmptyId
    /\ folderSelect = [options |-> {1}, value |-> EmptyId]
    /\ editorOpen = TRUE
    /\ confirmCallback = EmptyId
    /\ tasks = [h \in Handlers |-> NoTask]

NextEditor ==
    \/ SelectFolder
    \/ SaveCurrentMemoClick
    \/ SaveCurrentMemoUncategorized
    \/ SaveCurrentMemoFolderAdded
    \/ SaveCurrentMemoTouch
    \/ SaveCurrentMemoGet
    \/ SaveCurrentMemoReturn
    \/ CloseEditorClick
    \/ CloseEditorUncategorized
    \/ CloseEditorFolderAdded
    \/ CloseEditorTouch
    \/ CloseEditorGet
    \/ CloseEditorReturn

SpecEditor == InitEditor /\ [][NextEditor]_vars

\* ------------------------------------------------------------------ claims
TableRecords(t) == {t[k] : k \in DOMAIN t}

SeqRecords(arr) == {arr[i] : i \in 1..Len(arr)}

\* C1: when deleteFolder(id) completes, no memo with folderId = id and no
\* folder with that id is left, and every other folder and every memo of
\* another folder is still there, unchanged.
C1_DeleteFolderCascades ==
    [][(op.name = "deleteFolder" /\ op'.name = "idle") =>
        LET id == op.arg
        IN  /\ id \notin DOMAIN folders'
            /\ \A k \in DOMAIN memos' : memos'[k].folderId # id
            /\ TableRecords(folders') =
                   {f \in TableRecords(op.pre.folders) : f.id # id}
            /\ TableRecords(memos') =
                   {m \in TableRecords(op.pre.memos) : m.folderId # id}]_vars

\* deleteFolder has removed a folder together with a memo, and another record
\* of the store is left.
C1_Witness ==
    /\ ret.op = "deleteFolder"
    /\ ret.val.removed >= 1
    /\ ret.val.id \notin DOMAIN folders
    /\ (DOMAIN folders) \cup (DOMAIN memos) # {}

\* C2: while deleteFolder is in progress, the folder record is never already
\* absent with a memo of that folder still present.
C2_NoOrphanWindow ==
    (op.name = "deleteFolder") =>
        ~(/\ op.arg \notin DOMAIN folders
          /\ \E k \in DOMAIN memos : memos[k].folderId = op.arg)

\* C6: getMemosByFolder(folderId) returns exactly the memos of that folder,
\* each once, in non-increasing order of updatedAt (ret is the result of the
\* last call, compared with the table before any later call starts).
C6_ByFolderSortedExact ==
    (ret.op = "getMemosByFolder" /\ op = Idle) =>
        LET r == ret.val.memos
            mine == {m \in TableRecords(memos) : m.folderId = ret.val.folderId}
        IN  /\ SeqRecords(r) = mine
            /\ Len(r) = Cardinality(mine)
            /\ \A i \in 1..(Len(r) - 1) : r[i].updatedAt >= r[i + 1].updatedAt

\* getMemosByFolder returned two memos, the one created later first.
C6_Witness ==
    /\ ret.op = "getMemosByFolder"
    /\ op = Idle
    /\ Len(ret.val.memos) = 2
    /\ ret.val.memos[1].id > ret.val.memos[2].id
    /\ ret.val.memos[1].updatedAt > ret.val.memos[2].updatedAt

\* C7: importData(exportAllData()) leaves both tables as they were before the
\* export: the same records with every field unchanged.
C7_RoundTrip ==
    [][(op.name = "importData" /\ op.arg.roundTrip /\ op'.name = "idle") =>
        /\ ret'.status = "ok"
        /\ folders' = op.pre.folders
        /\ memos' = op.pre.memos]_vars

\* A round trip has completed over a store holding two folders, one of them
\* touched after its creation, and a memo.
C7_Witness ==
    /\ ret.op = "importData"
    /\ ret.status = "ok"
    /\ ret.val.roundTrip
    /\ Cardinality(DOMAIN folders) >= 2
    /\ memos # EmptyTable
    /\ \E k \in DOMAIN folders : folders[k].updatedAt > folders[k].createdAt

\* An import (called from restoreFromBackup) of a payload whose folders list
\* is empty, on a store that held folders and memos.
EmptyFoldersImportEnds ==
    /\ op.name = "importData"
    /\ op'.name = "idle"
    /\ ret'.status = "ok"
    /\ op.arg.folders = <<>>
    /\ op.pre.folders # EmptyTable
    /\ op.pre.memos # EmptyTable

\* C8 (as stated): after importData of a payload whose folders list is
\* empty, on a store holding folders and memos, both tables are empty.
C8_EmptyFoldersEmptiesAll ==
    [][EmptyFoldersImportEnds =>
        (folders' = EmptyTable /\ memos' = EmptyTable)]_vars

\* C8 (amended): after such an import the folders table is empty and the
\* memos table holds exactly the memos of the payload.
C8_EmptyFoldersKeepsPayloadMemos ==
    [][EmptyFoldersImportEnds =>
        /\ folders' = EmptyTable
        /\ TableRecords(memos') = SeqRecords(op.arg.memos)
        /\ Cardinality(DOMAIN memos') = Len(op.arg.memos)]_vars

\* An import with no folders and some memos has completed on a store that
\* held folders and memos.
C8_Witness ==
    /\ ret.op = "restoreFromBackup"
    /\ ret.status = "ok"
    /\ ret.val.noFolders
    /\ ~ret.val.noMemos
    /\ ret.val.priorFolders > 0
    /\ ret.val.priorMemos > 0
    /\ folders = EmptyTable
    /\ memos # EmptyTable

\* C9: when importData fails partway, both tables are as they were before
\* the call.
C9_FailedImportKeepsState ==
    [][(op.name = "importData" /\ op'.name = "idle" /\ ret'.status = "error") =>
        (folders' = op.pre.folders /\ memos' = op.pre.memos)]_vars

\* restoreFromBackup has ended without starting an import.
RestoreRefused ==
    /\ op.name = "restoreFromBackup"
    /\ op'.name = "idle"

\* C10: restoreFromBackup on a document without a non-null folders key or
\* without a non-null memos key reports it invalid, and neither then nor when
\* the user declines the confirmation (nor when the text does not parse to an
\* object) is any table changed; only an accepted, confirmed document starts
\* the import.
C10_InvalidRestoreRejected ==
    [][(op.name = "restoreFromBackup" /\ op' # op) =>
        /\ (op.arg.kind = "object" /\ (~op.arg.hasFolders \/ ~op.arg.hasMemos))
               => (RestoreRefused /\ ret'.status = "invalid")
        /\ (op.arg.kind # "object") => (RestoreRefused /\ ret'.status = "error")
        /\ RestoreRefused =>
               /\ folders' = folders /\ memos' = memos
               /\ folders' = op.pre.folders /\ memos' = op.pre.memos
               /\ ret'.status \in {"invalid", "declined", "error"}]_vars

\* restoreFromBackup has rejected a document as invalid on a store holding
\* folders and memos.
C10_Witness ==
    /\ ret.op = "restoreFromBackup"
    /\ ret.status = "invalid"
    /\ folders # EmptyTable
    /\ memos # EmptyTable

\* A save handler of the UI has just written a memo (addMemo or updateMemo).
MemoWritten(h) ==
    /\ tasks'[h].pc \in {"touchAdd", "touchUpdate"}
    /\ tasks[h].pc \notin {"touchAdd", "touchUpdate"}

\* C3: whenever saveCurrentMemo or closeEditor writes a memo, the folderId
\* written is not empty and is the id of a folder that is in the folders
\* table at that moment.
C3_WriteRefersToFolder ==
    [][\A h \in {"saveCurrentMemo", "closeEditor"} :
        MemoWritten(h) =>
            /\ tasks'[h].folderId # EmptyId
            /\ tasks'[h].folderId \in DOMAIN folders']_vars

\* q occurs in s, both taken in lower case; s may be undefined.
OccursIgnoringCase(q, s) ==
    /\ s # Undefined
    /\ \E i \in 1..(Len(s) - Len(q) + 1) :
           SubSeq(ToLowerCase(s), i, i + Len(q) - 1) = ToLowerCase(q)

\* C4: searchMemos("") returns the empty array whatever the store holds, and
\* searchMemos(q) returns the empty array when q occurs in no title and in no
\* content.
C4_EmptyQueryFindsNothing ==
    (ret.op = "searchMemos") =>
        /\ (ret.val.query = <<>>) => (ret.val.memos = <<>>)
        /\ (\A m \in TableRecords(memos) :
                ~OccursIgnoringCase(ret.val.query, m.title)
                /\ ~OccursIgnoringCase(ret.val.query, m.content))
               => (ret.val.memos = <<>>)

\* C5: for a non-empty query, searchMemos returns exactly the memos whose
\* title or whose content holds the query, case ignored; for any query, a
\* memo with neither a title nor a content is not returned, and the call does
\* not fail on a memo with a missing field.
C5_SearchMatchesEitherField ==
    (ret.op = "searchMemos") =>
        LET hits == {m \in TableRecords(memos) :
                        \/ OccursIgnoringCase(ret.val.query, m.title)
                        \/ OccursIgnoringCase(ret.val.query, m.content)}
        IN  /\ ret.status = "ok"
            /\ (ret.val.query # <<>>) =>
                   /\ SeqRecords(ret.val.memos) = hits
                   /\ Len(ret.val.memos) = Cardinality(hits)
            /\ \A m \in SeqRecords(ret.val.memos) :
                   Truthy(m.title) \/ Truthy(m.content)

\* A search in upper case has returned one memo, found by its content alone
\* (its title is undefined); the memo it left out has an undefined title and
\* an empty content.
C5_Witness ==
    /\ ret.op = "searchMemos"
    /\ ret.val.query = <<"A">>
    /\ Len(ret.val.memos) = 1
    /\ ret.val.memos[1].title = Undefined
    /\ \E k \in DOMAIN memos : memos[k].title = Undefined /\ memos[k].content = <<>>

\* C11: when addMemo on an existing folder returns, the memo it stored has
\* createdAt = updatedAt, the owning folder's updatedAt is not earlier than
\* the memo's createdAt, and no other folder's updatedAt has changed.
C11_AddMemoStampsAndTouches ==
    [][(/\ op.name = "addMemo"
        /\ op'.name = "idle"
        /\ op.arg.folderId \in DOMAIN op.pre.folders) =>
        LET f == op.arg.folderId
        IN  /\ op.arg.id \in DOMAIN memos'
            /\ memos'[op.arg.id].folderId = f
            /\ memos'[op.arg.id].createdAt = memos'[op.arg.id].updatedAt
            /\ f \in DOMAIN folders'
            /\ folders'[f].updatedAt >= memos'[op.arg.id].createdAt
            /\ \A k \in (DOMAIN op.pre.folders) \ {f} :
                   /\ k \in DOMAIN folders'
                   /\ folders'[k].updatedAt = op.pre.folders[k].updatedAt]_vars

\* addMemo has returned in a store of two folders: the memo's folder was
\* touched after its creation, the other folder was not.
C11_Witness ==
    /\ ret.op = "addMemo"
    /\ op = Idle
    /\ ret.val \in DOMAIN memos
    /\ memos[ret.val].folderId \in DOMAIN folders
    /\ folders[memos[ret.val].folderId].updatedAt
           > folders[memos[ret.val].folderId].createdAt
    /\ \E k \in DOMAIN folders :
           k # memos[ret.val].folderId /\ folders[k].updatedAt = folders[k].createdAt

\* C12: when addMemo or updateMemo returns, whatever fields updateMemo was
\* given, the folder that holds the memo written has an updatedAt that is not
\* earlier than the memo's updatedAt.
C12_FolderFollowsMemoActivity ==
    [][(/\ op.name \in {"addMemo", "updateMemo"}
        /\ op'.name = "idle"
        /\ op.arg.id \in DOMAIN memos'
        /\ memos'[op.arg.id].folderId \in DOMAIN folders') =>
        folders'[memos'[op.arg.id].folderId].updatedAt
            >= memos'[op.arg.id].updatedAt]_vars

\* C13: when updateMemo(id, fields) returns after moving an existing memo
\* from folder A to another folder B (fields.folderId = B), the memo's
\* folderId is B, B's updatedAt has been refreshed (it is not earlier than the
\* memo's new updatedAt), and A's record is as it was before the call.
C13_MoveTouchesNewFolderOnly ==
    [][(/\ op.name = "updateMemo"
        /\ op'.name = "idle"
        /\ op.arg.id \in DOMAIN op.pre.memos
        /\ op.arg.folderId \in DOMAIN op.pre.folders
        /\ op.pre.memos[op.arg.id].folderId \in DOMAIN op.pre.folders
        /\ op.pre.memos[op.arg.id].folderId # op.arg.folderId) =>
        LET a == op.pre.memos[op.arg.id].folderId
            b == op.arg.folderId
        IN  /\ memos'[op.arg.id].folderId = b
            /\ folders'[b].updatedAt >= memos'[op.arg.id].updatedAt
            /\ folders'[b].updatedAt <= now'
            /\ folders'[b].name = op.pre.folders[b].name
            /\ folders'[a] = op.pre.folders[a]]_vars

\* updateMemo has moved a memo to another folder and touched that folder,
\* whose updatedAt has advanced; it is about to return.
C13_Witness ==
    /\ op.name = "updateMemo"
    /\ op.pc = "get"
    /\ op.arg.id \in DOMAIN op.pre.memos
    /\ op.arg.folderId \in DOMAIN op.pre.folders
    /\ op.pre.memos[op.arg.id].folderId \in (DOMAIN folders) \ {op.arg.folderId}
    /\ memos[op.arg.id].folderId = op.arg.folderId
    /\ folders[op.arg.folderId].updatedAt
           > op.pre.folders[op.arg.folderId].updatedAt

\* C14: when updateMemo(id, fields) returns for an id that was not in the
\* memos table, it reports the failure (it does not return as a success does)
\* and both tables are as they were before the call.
C14_UpdateMissingMemoFails ==
    [][(/\ op.name = "updateMemo"
        /\ op'.name = "idle"
        /\ op.arg.id \notin DOMAIN op.pre.memos) =>
        /\ ret'.status # "ok"
        /\ memos' = op.pre.memos
        /\ folders' = op.pre.folders]_vars

\* C15: updateFolder(id, name) on an id that is not in the folders table
\* returns without error and leaves both tables as they are; on an id that is
\* there it changes that folder's name and updatedAt only: its id and
\* createdAt, every other folder and every memo are unchanged.
C15_UpdateFolderFrame ==
    [][UpdateFolder =>
        LET id == ret'.val
        IN  /\ ret'.status = "ok"
            /\ memos' = memos
            /\ DOMAIN folders' = DOMAIN folders
            /\ \A k \in (DOMAIN folders) \ {id} : folders'[k] = folders[k]
            /\ (id \in DOMAIN folders) =>
                   /\ folders'[id].id = id
                   /\ folders'[id].createdAt = folders[id].createdAt
                   /\ folders'[id].updatedAt = now]_vars

\* updateFolder has returned for an id that is in no folder record, in a
\* store that holds a folder and a memo.
C15_WitnessMissing ==
    /\ ret.op = "updateFolder"
    /\ ret.val \notin DOMAIN folders
    /\ folders # EmptyTable
    /\ memos # EmptyTable

\* updateFolder has renamed a folder after its creation; another folder and a
\* memo are in the store.
C15_Witness ==
    /\ ret.op = "updateFolder"
    /\ ret.val \in DOMAIN folders
    /\ folders[ret.val].updatedAt > folders[ret.val].createdAt
    /\ folders[ret.val].name = "uncategorized"
    /\ \E k \in DOMAIN folders : k # ret.val
    /\ memos # EmptyTable
    /\ \A k \in DOMAIN memos : memos[k].folderId # ret.val

\* C16: deleteMemo(id) returns without error; for an id that is not in the
\* store both tables are unchanged; deleting the same id again gives the same
\* tables as deleting it once; and no folder record and no other memo is
\* changed by it.
C16_DeleteMemoIdempotent ==
    [][DeleteMemo =>
        LET id == ret'.val
        IN  /\ ret'.status = "ok"
            /\ folders' = folders
            /\ id \notin DOMAIN memos'
            /\ (id \notin DOMAIN memos) => (memos' = memos)
            /\ TableDelete(memos', id) = memos'
            /\ DOMAIN memos' = (DOMAIN memos) \ {id}
            /\ \A k \in DOMAIN memos' : memos'[k] = memos[k]]_vars

\* deleteMemo has returned for the id generated last, which is in no table;
\* a memo created before it and a folder are in the store.
C16_Witness ==
    /\ ret.op = "deleteMemo"
    /\ ret.val \notin DOMAIN memos
    /\ ret.val \notin DOMAIN folders
    /\ op = Idle
    /\ \E k \in DOMAIN memos : k < ret.val
    /\ folders # EmptyTable

\* C17: whatever createdAt / updatedAt the caller puts in the argument,
\* addMemo stores the clock value in both, and updateMemo stores the clock
\* value in updatedAt and leaves createdAt as it was set at creation.
C17_StampsSetByStore ==
    [][/\ (op = Idle /\ op'.name = "addMemo") =>
            /\ memos'[op'.arg.id].createdAt = now
            /\ memos'[op'.arg.id].updatedAt = now
       /\ (op = Idle /\ op'.name = "updateMemo"
               /\ op'.arg.id \in DOMAIN memos) =>
            /\ memos'[op'.arg.id].createdAt = memos[op'.arg.id].createdAt
            /\ memos'[op'.arg.id].updatedAt = now]_vars

\* The state InitEditor starts from, as the UI reaches it.
EditorJustOpened ==
    /\ editorOpen
    /\ currentMemoId = EmptyId
    /\ folderSelect = [options |-> {1}, value |-> EmptyId]
    /\ memos = EmptyTable
    /\ nextId = 2
    /\ tasks = [h \in Handlers |-> NoTask]

\* C18: in one editor session that openEditor started on a new memo, whatever
\* saveCurrentMemo and closeEditor invocations follow and however they
\* overlap, at most one memo record is added to the (initially empty) table.
C18_OneMemoPerSession == Cardinality(DOMAIN memos) <= 1

\* C19: starting from a store with at most one folder of the reserved name,
\* whatever calls of getOrCreateUncategorizedFolder are made and however
\* their awaited steps interleave, the folders table holds at most one folder
\* of that name, and the folder a call returns is in the table.
C19_OneUncategorizedFolder ==
    /\ Cardinality({k \in DOMAIN folders : folders[k].name = "uncategorized"}) <= 1
    /\ \A h \in {"saveCurrentMemo", "closeEditor"} :
           (tasks[h].pc = "folderAdded") => (tasks[h].folderId \in DOMAIN folders)

====
